---- MODULE Spec2Model ----
(***************************************************************************)
(* Transcode plan computation, job lifecycle monitor and download of the   *)
(* MediaConvert pipeline (mediaconvert.js, upload.js, index.js).           *)
(*                                                                         *)
(* These specifications share the module:                                  *)
(*   Spec      - monitorJobProgress polling one job to a terminal outcome  *)
(*   UriSpec   - the same monitor, the completed job echoing every shape   *)
(*               of settings                                               *)
(*   PlanSpec  - the planners of createMediaConvertJob applied to a        *)
(*               probed source geometry                                    *)
(*   JobSpec   - one call of createMediaConvertJob, from the metadata      *)
(*               probe to the answer of the create-job request             *)
(*   OverlaySpec - generateWatermarkSequence applied to a video duration   *)
(*               and a per-corner duration                                 *)
(*   LiveSpec  - the monitor polling a remote job that moves through its   *)
(*               lifecycle, under fair scheduling of the poll and the      *)
(*               timer                                                     *)
(*   ResubmitSpec - createMediaConvertJob called again and again while     *)
(*               the wall clock runs                                       *)
(*   DownloadSpec - downloadFromS3 waiting for the output object           *)
(*   MainSpec  - main: upload, submission, monitoring and download         *)
(***************************************************************************)
EXTENDS Integers, Naturals, Sequences, FiniteSets, TLC

VARIABLES
    \* ---- createMediaConvertJob (planning) ----
    planPc,            \* "idle" | "probed" | "resolved" | "rechecked"
    videoMetadata,     \* [width, height] of the (rotation-normalised) source
    outputResolution,  \* result of calculateOutputResolution, or NoResolution
    recheckedResolution, \* calculateOutputResolution applied to outputResolution
    \* ---- createMediaConvertJob (one call) ----
    jobPc,             \* "idle" | "probing" | "planning" | "returned" | "thrown"
    localFilePath,     \* "null" or the path of the local copy of the source
    probe,             \* "none" | "skipped" | "resolved" | "rejected"
    jobSettings,       \* the job description handed to CreateJobCommand, or NoJob
    createJobCommands, \* number of create-job requests sent so far
    s3Uri,             \* the S3 URI of the uploaded source, or "none"
    \* ---- the wall clock and the job service, across calls ----
    dateNow,           \* Date.now(), in ms from the first reading
    submissions,       \* FileInput and NameModifier of every create-job request sent
    \* ---- main (index.js) ----
    mainPc,            \* "idle" | "uploading" | "creating" | "monitoring"
                       \* | "downloading" | "done" | "exited"
    \* ---- downloadFromS3 and waitForS3Object ----
    downloadPc,        \* "idle" | "called" | "checking" | "waiting" | "fetching"
                       \* | "returned" | "thrown"
    fileExists,        \* "none", or what waitForS3Object returned: "true" | "false"
    outputUri,         \* the s3Uri argument of downloadFromS3, or <<>>
    heads,             \* outcomes of the HeadObject requests so far, oldest first
    waitedMs,          \* total time slept between the requests
    localFile,         \* "absent" | "written": the file at localOutputPath
    downloadError,     \* message of the error downloadFromS3 threw, or <<>>
    \* ---- generateWatermarkSequence (one call) ----
    overlayPc,         \* "idle" | "called" | "returned"
    options,           \* the options object of the call
    watermarks,        \* the array it returned
    \* ---- the remote job service, as seen by one monitor run ----
    service,           \* [echoes: which Settings a job may echo, answers: calls answered]
                       \* and, where the remote job is followed, [status: its
                       \* current status, reliable: status requests no longer fail]
    \* ---- monitorJobProgress ----
    pc,                \* "idle" | "polling" | "sleeping" | "returned" | "thrown"
    previousStatus,    \* let previousStatus = null
    lastProgressUpdate,\* let lastProgressUpdate = 0
    clock,             \* whole seconds since startTime (Date.now() - startTime)
    polls,             \* answers of getJobStatus so far, oldest first
    log,               \* console output of the monitor, oldest first
    result             \* what monitorJobProgress returned or threw

planVars == <<planPc, videoMetadata, outputResolution, recheckedResolution>>
monVars == <<service, pc, previousStatus, lastProgressUpdate, clock, polls, log, result>>
jobVars == <<jobPc, localFilePath, probe, jobSettings, createJobCommands>>
overlayVars == <<overlayPc, options, watermarks>>
runVars == <<s3Uri, dateNow, submissions, mainPc>>
downloadVars ==
    <<downloadPc, fileExists, outputUri, heads, waitedMs, localFile, downloadError>>
vars == <<planVars, monVars, jobVars, overlayVars, runVars, downloadVars>>

-----------------------------------------------------------------------------
(* Bounds of the model *)

\* widths and heights 2..MaxSmallDim are all tried
MaxSmallDim == 12
\* widths and heights within EdgeWindow of the long-edge limit are all tried
EdgeWindow == 3
\* number of getJobStatus calls one monitor run may make
MaxPolls == 4
\* the same, in the runs that try every shape of the echoed job settings
MaxUriPolls == 2
\* video durations of every half second up to MaxHalfSeconds half seconds
MaxHalfSeconds == 30
\* most placements one generated overlay sequence may hold
MaxPlacements == 80
\* milliseconds the wall clock may advance while calls are repeated
MaxMilliseconds == 3
\* create-job requests followed across repeated calls
MaxSubmissions == 3
\* number of getJobStatus calls the monitor may make in a run of main
MaxMainPolls == 2

-----------------------------------------------------------------------------
(* Geometry planner *)

\* calculateOutputResolution(videoMetadata.width, videoMetadata.height, 1920)
MaxLongEdge == 1920

Max(a, b) == IF a >= b THEN a ELSE b
Min(a, b) == IF a <= b THEN a ELSE b

\* Math.floor(dimension / 2) * 2
ensureEvenRoundsUp(dimension) == ((dimension + 1) \div 2) * 2
ensureEvenHalves(dimension) == dimension \div 2
ensureEvenStrict(dimension) == ((dimension - 1) \div 2) * 2
ensureEven(dimension) == (dimension \div 2) * 2

RECURSIVE GCD(_, _)
GCD(a, b) == IF b = 0 THEN a ELSE GCD(b, a % b)
RECURSIVE IsPowerOfTwo(_)
IsPowerOfTwo(n) == n = 1 \/ (n > 1 /\ n % 2 = 0 /\ IsPowerOfTwo(n \div 2))

\* scaleFactor = maxLongEdge / longEdge is a double: it is the quotient itself
\* exactly when longEdge / gcd is a power of two, and its nearest double if not
ExactScaleFactor(maxLongEdge, longEdge) ==
    IsPowerOfTwo(longEdge \div GCD(maxLongEdge, longEdge))

\* Math.round(dimension * scaleFactor): the nearest integer, a tie k + 1/2
\* going up.  With an exact scaleFactor the product is exact.  With a rounded
\* one the double product differs from the true one by less than a unit in
\* the last place, which changes the result only when the true product is a
\* tie: it can then be the tie or the double just below it (11 * (1920 / 2816)
\* is 7.499999999999999), so both results are admitted there.
MathRound(dimension, maxLongEdge, longEdge) ==
    LET num == dimension * maxLongEdge
        up == (2 * num + longEdge) \div (2 * longEdge)
        tie == (2 * num) % longEdge = 0 /\ ((2 * num) \div longEdge) % 2 = 1
    IN  IF tie /\ ~ExactScaleFactor(maxLongEdge, longEdge) THEN {up - 1, up} ELSE {up}

\* the set of results calculateOutputResolution can return (one, but for ties)
calculateOutputResolutionShortEdge(width, height, maxLongEdge) ==
    LET longEdge == IF width <= height THEN width ELSE height
    IN  IF longEdge <= maxLongEdge
        THEN {[width |-> (width \div 2) * 2, height |-> (height \div 2) * 2]}
        ELSE {[width |-> (((2 * width * maxLongEdge + longEdge) \div (2 * longEdge)) \div 2) * 2,
               height |-> (((2 * height * maxLongEdge + longEdge) \div (2 * longEdge)) \div 2) * 2]}
calculateOutputResolution(width, height, maxLongEdge) ==
    LET longEdge == Max(width, height)
    IN  IF longEdge <= maxLongEdge
        THEN {[width |-> ensureEven(width), height |-> ensureEven(height)]}
        ELSE {[width |-> ensureEven(newWidth), height |-> ensureEven(newHeight)] :
                 newWidth \in MathRound(width, maxLongEdge, longEdge),
                 newHeight \in MathRound(height, maxLongEdge, longEdge)}

\* Math.min(outputResolution.width / videoMetadata.width,
\*          outputResolution.height / videoMetadata.height), as a fraction
scaleFactor(out, src) ==
    IF out.width * src.height <= out.height * src.width
    THEN [num |-> out.width, den |-> src.width]
    ELSE [num |-> out.height, den |-> src.height]

NoResolution == [width |-> -1, height |-> -1]

\* source geometries tried: every small size, every size next to the limit,
\* and the usual video sizes above and below it
Landmarks == {720, 1079, 1080, 1081, 1280, 1440, 2160, 2560, 2561, 2816, 3840, 4000}
Dims == (2 .. MaxSmallDim)
        \cup ((MaxLongEdge - EdgeWindow) .. (MaxLongEdge + EdgeWindow))
        \cup Landmarks

-----------------------------------------------------------------------------
(* Planning steps of createMediaConvertJob *)

\* const outputResolution = calculateOutputResolution(width, height, 1920)
ResolveOutput ==
    /\ planPc = "probed"
    /\ \E r \in calculateOutputResolution(videoMetadata.width, videoMetadata.height, MaxLongEdge) :
          outputResolution' = r
    /\ planPc' = "resolved"
    /\ UNCHANGED <<videoMetadata, recheckedResolution, monVars, jobVars, overlayVars,
                   runVars, downloadVars>>

\* the planner run again on its own output
RecheckOutput ==
    /\ planPc = "resolved"
    /\ \E r \in calculateOutputResolution(outputResolution.width, outputResolution.height, MaxLongEdge) :
          recheckedResolution' = r
    /\ planPc' = "rechecked"
    /\ UNCHANGED <<videoMetadata, outputResolution, monVars, jobVars, overlayVars,
                   runVars, downloadVars>>

NoJob == [Width |-> -1, Height |-> -1, MaxBitrate |-> -1, InsertableImages |-> <<>>]

\* createMediaConvertJob is not called
JobIdle ==
    /\ jobPc = "idle"
    /\ localFilePath = "null"
    /\ probe = "none"
    /\ jobSettings = NoJob
    /\ createJobCommands = 0

\* main is not running and no create-job request was sent
RunIdle ==
    /\ s3Uri = "none"
    /\ dateNow = 0
    /\ submissions = <<>>
    /\ mainPc = "idle"

\* downloadFromS3 is not called
DownloadIdle ==
    /\ downloadPc = "idle"
    /\ fileExists = "none"
    /\ outputUri = <<>>
    /\ heads = <<>>
    /\ waitedMs = 0
    /\ localFile = "absent"
    /\ downloadError = <<>>

\* generateWatermarkSequence is not called
OverlayIdle ==
    /\ overlayPc = "idle"
    /\ options = [videoWidth |-> 1920, videoHeight |-> 1080, videoDurationMs |-> 15000,
                  watermarkSize |-> 100, offset |-> 50, durationMs |-> 5000,
                  opacity |-> 80]
    /\ watermarks = <<>>

MonitorIdle ==
    /\ service = [echoes |-> "none", answers |-> 0]
    /\ pc = "idle"
    /\ previousStatus = "null"
    /\ lastProgressUpdate = 0
    /\ clock = 0
    /\ polls = <<>>
    /\ log = <<>>
    /\ result = [kind |-> "none"]

PlanInit ==
    /\ planPc = "probed"
    /\ videoMetadata \in [width : Dims, height : Dims]
    /\ outputResolution = NoResolution
    /\ recheckedResolution = NoResolution
    /\ MonitorIdle
    /\ JobIdle
    /\ OverlayIdle
    /\ RunIdle
    /\ DownloadIdle

PlanNext == ResolveOutput \/ RecheckOutput

PlanSpec == PlanInit /\ [][PlanNext]_vars

-----------------------------------------------------------------------------
(* Claims about the geometry planner (checked under PlanSpec) *)

IsEven(n) == n % 2 = 0
Resolved == planPc \in {"resolved", "rechecked"}
SourceLongEdge == Max(videoMetadata.width, videoMetadata.height)

\* C8: for every source width, height >= 2 the output width and height are
\* both even; a source long edge above 1920 gives an output long edge of at
\* most 1920, and otherwise each output dimension is floor(dimension/2)*2.
C8_EvenAndBounded ==
    Resolved =>
        /\ IsEven(outputResolution.width) /\ IsEven(outputResolution.height)
        /\ SourceLongEdge > 1920 =>
               Max(outputResolution.width, outputResolution.height) <= 1920
        /\ SourceLongEdge <= 1920 =>
               /\ outputResolution.width = 2 * (videoMetadata.width \div 2)
               /\ outputResolution.height = 2 * (videoMetadata.height \div 2)

\* C8 witness: an odd source above the limit has been resolved
C8_Witness ==
    /\ Resolved
    /\ videoMetadata = [width |-> 1921, height |-> 1081]
    /\ outputResolution.width <= 1920

\* C9: the planner applied to its own output returns that output
C9_Idempotent ==
    planPc = "rechecked" => recheckedResolution = outputResolution

\* C9 witness: a scaled-down source has been planned twice
C9_Witness ==
    /\ planPc = "rechecked"
    /\ videoMetadata = [width |-> 3840, height |-> 2160]
    /\ outputResolution = [width |-> 1920, height |-> 1080]
    /\ recheckedResolution = [width |-> 1920, height |-> 1080]

\* C10: for every source with width >= 2 and height >= 2 the output width and
\* height are > 0 and the scale factor min(outW/width, outH/height) is in (0, 1]
C10_PositiveGeometry ==
    Resolved =>
        /\ outputResolution.width > 0
        /\ outputResolution.height > 0
        /\ scaleFactor(outputResolution, videoMetadata).num > 0
        /\ scaleFactor(outputResolution, videoMetadata).num
              <= scaleFactor(outputResolution, videoMetadata).den

\* C11 (as stated): a 1921x1081 source with maxLongEdge 1920 takes the scaling
\* branch and is planned as 1918x1078
C11_AsStated ==
    (Resolved /\ videoMetadata = [width |-> 1921, height |-> 1081]) =>
        /\ SourceLongEdge > MaxLongEdge
        /\ outputResolution = [width |-> 1918, height |-> 1078]

\* C11 (amended): a 1921x1081 source with maxLongEdge 1920 takes the scaling
\* branch and is planned as 1920x1080: round(1921 * 1920/1921) = 1920 and
\* round(1081 * 1920/1921) = round(1080.44) = 1080, both already even
C11_ScaledTo1920x1080 ==
    (Resolved /\ videoMetadata = [width |-> 1921, height |-> 1081]) =>
        /\ SourceLongEdge > MaxLongEdge
        /\ outputResolution = [width |-> 1920, height |-> 1080]

\* C11 witness: the 1921x1081 source has just been planned, as 1920x1080
C11_Witness ==
    /\ planPc = "resolved"
    /\ videoMetadata = [width |-> 1921, height |-> 1081]
    /\ outputResolution = [width |-> 1920, height |-> 1080]

\* the documented examples: source geometry -> output geometry
C12_Table ==
    { <<[width |-> 3840, height |-> 2160], [width |-> 1920, height |-> 1080]>>,
      <<[width |-> 2560, height |-> 1440], [width |-> 1920, height |-> 1080]>>,
      <<[width |-> 1920, height |-> 1080], [width |-> 1920, height |-> 1080]>>,
      <<[width |-> 1280, height |-> 720], [width |-> 1280, height |-> 720]>>,
      <<[width |-> 1921, height |-> 1081], [width |-> 1920, height |-> 1080]>>,
      <<[width |-> 1079, height |-> 1920], [width |-> 1078, height |-> 1920]>> }

\* C12: with maxLongEdge 1920 the documented examples are planned as
\* documented, 3840x2160 with a bitrate scale factor of 1/2; and a source
\* long edge above 1920 always gives an output long edge of exactly 1920
C12_DocumentedExamples ==
    Resolved =>
        /\ \A row \in C12_Table : videoMetadata = row[1] => outputResolution = row[2]
        /\ videoMetadata = [width |-> 3840, height |-> 2160] =>
               2 * scaleFactor(outputResolution, videoMetadata).num
                  = scaleFactor(outputResolution, videoMetadata).den
        /\ SourceLongEdge > 1920 =>
               Max(outputResolution.width, outputResolution.height) = 1920

\* C12 witness: the portrait example with an odd short edge has been planned
C12_Witness ==
    /\ Resolved
    /\ videoMetadata = [width |-> 1079, height |-> 1920]
    /\ outputResolution = [width |-> 1078, height |-> 1920]

-----------------------------------------------------------------------------
(* Values of the job monitor *)

\* an optional field: None is undefined, Some(x) a present value
None == <<>>
Some(x) == <<x>>
IsDefined(o) == o # <<>>
Get(o) == o[1]

\* strings are sequences of characters; a message is a sequence of words
MaxOf(S) == CHOOSE x \in S : \A y \in S : y <= x

\* s.includes(t), on sequences
Includes(s, t) ==
    \E i \in 0 .. (Len(s) - Len(t)) : SubSeq(s, i + 1, i + Len(t)) = t

\* path.basename(p): trailing slashes dropped, then the last component
PathBasename(p) ==
    LET nonSlash == {i \in 1 .. Len(p) : p[i] # "/"}
        end == IF nonSlash = {} THEN 0 ELSE MaxOf(nonSlash)
        slashes == {i \in 1 .. end : p[i] = "/"}
        start == IF slashes = {} THEN 0 ELSE MaxOf(slashes)
    IN  SubSeq(p, start + 1, end)

\* path.extname(p): from the last "." of the last component to its end; empty
\* when there is no ".", when the "." opens the component, or for ".."
PathExtname(p) ==
    LET c == PathBasename(p)
        dots == {i \in 1 .. Len(c) : c[i] = "."}
        startDot == IF dots = {} THEN 0 ELSE MaxOf(dots)
    IN  IF startDot = 0 \/ startDot = 1 \/ c = <<".", ".">>
        THEN <<>>
        ELSE SubSeq(c, startDot, Len(c))

\* path.basename(p, suffix): the last component without a trailing suffix
PathBasenameWithout(p, suffix) ==
    LET c == PathBasename(p)
        n == Len(c) - Len(suffix)
    IN  IF suffix = <<>> \/ Len(suffix) > Len(p) THEN c
        ELSE IF suffix = p THEN <<>>
        ELSE IF n > 0 /\ SubSeq(c, n + 1, Len(c)) = suffix THEN SubSeq(c, 1, n)
        ELSE c

\* JobStatus of @aws-sdk/client-mediaconvert, and a status outside the enum
TerminalStatuses == {"COMPLETE", "ERROR", "CANCELED"}
Statuses == {"SUBMITTED", "PROGRESSING", "OTHER"} \cup TerminalStatuses

\* job.JobPercentComplete
Percents == {"undefined", "10", "50"}

\* job.ErrorMessage of a failed job (<<>>: absent or empty, both falsy)
RemoteErrorMessages ==
    {<<>>, <<"Unsupported", "codec">>, <<"was", "canceled">>}

\* error.message of a getJobStatus call that throws
PollErrorMessages ==
    {<<"socket", "hang", "up">>,
     <<"MediaConvert", "job", "lookup", "timed", "out">>}

\* job.Settings as echoed by the service
EchoedSettings(destination, outputs, inputs) ==
    Some([OutputGroups |-> Some(<<[Destination |-> destination, Outputs |-> outputs]>>),
          Inputs |-> inputs])
OneOutput(nameModifier, container) ==
    Some(<<[NameModifier |-> nameModifier, Container |-> container]>>)
OneInput(fileInput) == Some(<<[FileInput |-> fileInput]>>)

Destinations ==
    {None, Some(<<>>), Some(<<"d">>), Some(<<"d", "/">>), Some(<<"d", "/", "/">>)}
FileInputs ==
    {None, Some(<<"i", "/", "v", ".", "m">>), Some(<<"v">>), Some(<<".", "v">>),
     Some(<<"v", ".", "a", ".", "m">>), Some(<<"i", ".", "x", "/", "v">>),
     Some(<<"v", ".", "m", "/">>), Some(<<"v", ".">>)}
NameModifiers == {None, Some(<<>>), Some(<<"_", "7">>)}
Containers == {None, Some("MP4"), Some("MOV"), Some("WEBM")}

\* every shape of the echoed settings: each field present, absent or empty
AllSettings ==
    {None,
     Some([OutputGroups |-> None, Inputs |-> OneInput(Some(<<"v", ".", "m">>))]),
     Some([OutputGroups |-> Some(<<>>), Inputs |-> OneInput(Some(<<"v", ".", "m">>))])}
    \cup {EchoedSettings(d, o, i) :
            d \in Destinations,
            o \in {None, Some(<<>>)}
                  \cup {OneOutput(n, c) : n \in NameModifiers, c \in Containers},
            i \in {None, Some(<<>>)} \cup {OneInput(f) : f \in FileInputs}}

\* a few of them, for the runs that follow the whole life of a job
CoreSettings ==
    {None,
     EchoedSettings(Some(<<"d", "/">>), OneOutput(Some(<<"_", "7">>), Some("MP4")),
                    OneInput(Some(<<"i", "/", "v", ".", "m">>))),
     EchoedSettings(None, OneOutput(Some(<<"_", "7">>), Some("MOV")),
                    OneInput(Some(<<"i", "/", "v", ".", "m">>))),
     EchoedSettings(Some(<<"d">>), OneOutput(None, Some("MOV")),
                    OneInput(Some(<<"v", ".", "m">>)))}

\* the fields of response.Job the monitor decides on (CurrentPhase and
\* ErrorCode only add text to a printed line)
Job(status, percent, errorMessage, settings) ==
    [Status |-> status, JobPercentComplete |-> percent,
     ErrorMessage |-> errorMessage, Settings |-> settings]

\* those of a job the pipeline submitted itself, as echoed in full, without
\* its destination, or not at all
MainSettings ==
    {None,
     EchoedSettings(Some(<<"s", "3", ":", "/", "/", "b", "/", "o", "/">>),
                    OneOutput(Some(<<"_", "7">>), Some("MP4")),
                    OneInput(Some(<<"s", "3", ":", "/", "/", "b", "/", "i", "/", "v", ".", "m">>))),
     EchoedSettings(None, OneOutput(Some(<<"_", "7">>), Some("MP4")),
                    OneInput(Some(<<"s", "3", ":", "/", "/", "b", "/", "i", "/", "v", ".", "m">>))),
     EchoedSettings(Some(<<"o", "/">>), OneOutput(Some(<<"_", "7">>), Some("MP4")),
                    OneInput(Some(<<"v", ".", "m">>)))}

\* the Settings the service echoes: "core", "all", "main" or "none"
Echoes(which) ==
    IF which = "all" THEN AllSettings
    ELSE IF which = "core" THEN CoreSettings
    ELSE IF which = "main" THEN MainSettings
    ELSE {}

\* the answers getJobStatus can return
Jobs(which) ==
    {Job(st, "undefined", <<>>, None) : st \in {"SUBMITTED", "OTHER", "CANCELED"}}
    \cup {Job("PROGRESSING", pct, <<>>, None) : pct \in Percents}
    \cup {Job("ERROR", "undefined", m, None) : m \in RemoteErrorMessages}
    \cup {Job("COMPLETE", "undefined", <<>>, e) : e \in Echoes(which)}

\* seconds a getJobStatus round trip takes
Latencies == {0, 1}

\* config.mediaconvert.pollIntervalMs (default 5000), in seconds
PollIntervalSeconds == 5

-----------------------------------------------------------------------------
(* monitorJobProgress: one pass of the loop body *)

\* if (status !== previousStatus)
StatusChangedAlways(status, previous) == TRUE
StatusChanged(status, previous) == status # previous

\* (elapsedSeconds - lastProgressUpdate) >= 10 || job.JobPercentComplete !== undefined
shouldShowUpdate(elapsedSeconds, lastUpdate, job) ==
    \/ (elapsedSeconds - lastUpdate) >= 10
    \/ job.JobPercentComplete # "undefined"

\* new Error('MediaConvert job was canceled')
CanceledError == <<"MediaConvert", "job", "was", "canceled">>

\* new Error(`MediaConvert job failed: ${job.ErrorMessage || 'Unknown error'}`)
JobFailedErrorWithoutMessage(job) == <<"MediaConvert", "job", "failed">>
JobFailedError(job) ==
    <<"MediaConvert", "job", "failed:">>
        \o (IF job.ErrorMessage # <<>> THEN job.ErrorMessage ELSE <<"Unknown", "error">>)

\* a TypeError raised while reading the echoed settings
TypeErrorMessage == <<"Cannot", "read", "properties", "of", "undefined">>

\* if (error.message.includes('MediaConvert job')) throw error;
CatchRethrowsNothing(message) == FALSE
CatchRethrows(message) == Includes(message, <<"MediaConvert", "job">>)

\* container === 'MP4' ? '.mp4' : container === 'MOV' ? '.mov' : '.mp4'
ExtensionAlwaysMp4(container) == <<".", "m", "p", "4">>
Extension(container) ==
    IF container = Some("MOV") THEN <<".", "m", "o", "v">> ELSE <<".", "m", "p", "4">>

\* destination.endsWith('/') ? destination.slice(0, -1) : destination
CleanDestination(destination) ==
    IF Len(destination) > 0 /\ destination[Len(destination)] = "/"
    THEN SubSeq(destination, 1, Len(destination) - 1)
    ELSE destination

\* the body of the try block that rebuilds the output URI of a completed job;
\* now is Date.now().  threw: a TypeError left the block.  The block is written
\* twice: inside the loop (inLoop), and in the catch block without the
\* Date.now() name modifier and the reads of Outputs[0] that go with it.
RebuildOutputUri(job, now, inLoop) ==
    LET settings == Get(job.Settings)
        usable ==
            /\ IsDefined(job.Settings)
            /\ IsDefined(settings.OutputGroups) /\ Len(Get(settings.OutputGroups)) > 0
            /\ IsDefined(settings.Inputs) /\ Len(Get(settings.Inputs)) > 0
        outputGroup == Get(settings.OutputGroups)[1]
        destination == outputGroup.Destination
        fileInput == Get(settings.Inputs)[1].FileInput
        outputs == outputGroup.Outputs
        hasOutput == IsDefined(outputs) /\ Len(Get(outputs)) > 0
        output == Get(outputs)[1]
        fileName == PathBasename(Get(fileInput))
        baseName == PathBasenameWithout(fileName, PathExtname(fileName))
        nameModifier ==
            IF hasOutput /\ IsDefined(output.NameModifier) /\ Get(output.NameModifier) # <<>>
            THEN Get(output.NameModifier)
            ELSE IF inLoop /\ IsDefined(outputs) /\ ~IsDefined(output.NameModifier)
                 THEN <<"_", ToString(now)>>
                 ELSE <<>>
        extension == IF hasOutput THEN Extension(output.Container) ELSE Extension(None)
    IN  IF ~usable
        THEN [threw |-> FALSE, outputUri |-> None, located |-> TRUE]
        ELSE IF \/ ~IsDefined(fileInput)                        \* path.basename(undefined)
                \/ (inLoop /\ IsDefined(outputs) /\ Len(Get(outputs)) = 0) \* Outputs[0].NameModifier
                \/ ~IsDefined(destination)                      \* destination.endsWith
             THEN [threw |-> TRUE, outputUri |-> None, located |-> FALSE]
             ELSE [threw |-> FALSE,
                   outputUri |-> Some(CleanDestination(Get(destination)) \o <<"/">>
                                      \o baseName \o nameModifier \o extension),
                   located |-> FALSE]

OutputUriAttempt(job, now) == RebuildOutputUri(job, now, TRUE)

\* try { ... } catch (error) { console.log(`Output location: ...`) }
TryOutputUriNoCatch(job, now) == OutputUriAttempt(job, now)
TryOutputUri(job, now) ==
    LET attempt == OutputUriAttempt(job, now)
    IN  IF attempt.threw
        THEN [threw |-> FALSE, outputUri |-> None, located |-> TRUE]
        ELSE attempt

\* the lines the monitor prints
TransitionEvent(job, elapsedSeconds) ==
    [kind |-> "transition", status |-> job.Status, elapsed |-> elapsedSeconds]
ProgressEvent(job, elapsedSeconds, lastUpdate, lastPercent) ==
    [kind |-> "progress", elapsed |-> elapsedSeconds, lastUpdate |-> lastUpdate,
     percent |-> job.JobPercentComplete, lastPercent |-> lastPercent]
OutputEvent(found) ==
    IF IsDefined(found.outputUri)
    THEN [kind |-> "output-file", uri |-> Get(found.outputUri)]
    ELSE [kind |-> "output-location"]
ErrorEvent(message) == [kind |-> "error", message |-> message]

\* what one pass of the try block does with the answer of getJobStatus:
\*   kind "return": return { job, outputUri }     kind "throw": an error is thrown
\*   kind "break": the loop is left               kind "sleep": wait, poll again
\* lastPercent is the percent the previous answer carried (kept for the log only)
TryBlock(job, elapsedSeconds, previous, lastUpdate, lastPercent) ==
    LET status == job.Status
        base == [kind |-> "sleep", previousStatus |-> previous,
                 lastProgressUpdate |-> lastUpdate, events |-> <<>>,
                 job |-> job, outputUri |-> None, message |-> <<>>]
    IN  IF StatusChanged(status, previous)
        THEN LET changed == [base EXCEPT !.events = <<TransitionEvent(job, elapsedSeconds)>>]
             IN  CASE status = "COMPLETE" ->
                        LET found == TryOutputUri(job, elapsedSeconds)
                        IN  IF found.threw
                            THEN [changed EXCEPT !.kind = "throw", !.message = TypeErrorMessage]
                            ELSE [changed EXCEPT !.kind = "return",
                                                 !.outputUri = found.outputUri,
                                                 !.events = @ \o <<OutputEvent(found)>>]
                   [] status = "CANCELED" ->
                        [changed EXCEPT !.kind = "throw", !.message = CanceledError]
                   [] status = "ERROR" ->
                        [changed EXCEPT !.kind = "throw", !.message = JobFailedError(job)]
                   [] OTHER ->
                        [changed EXCEPT !.previousStatus = status]
        ELSE LET shown ==
                    IF status = "PROGRESSING" /\ shouldShowUpdate(elapsedSeconds, lastUpdate, job)
                    THEN [base EXCEPT
                            !.events = <<ProgressEvent(job, elapsedSeconds, lastUpdate, lastPercent)>>,
                            !.lastProgressUpdate = elapsedSeconds]
                    ELSE base
             IN  IF status \in TerminalStatuses
                 THEN [shown EXCEPT !.kind = "break"]
                 ELSE shown

\* the catch block's own rebuild of the URI: try { ... } catch (e) { }
FinalOutputUri(finalJob) ==
    LET attempt == RebuildOutputUri(finalJob, 0, FALSE)
    IN  IF attempt.threw THEN None ELSE attempt.outputUri

-----------------------------------------------------------------------------
(* monitorJobProgress: the steps *)

Last(seq) == seq[Len(seq)]

\* JobPercentComplete of the latest answered poll ("undefined" before any)
LastPercent(history) ==
    LET answered == SelectSeq(history, LAMBDA a : a.ok)
    IN  IF answered = <<>> THEN "undefined" ELSE Last(answered).job.JobPercentComplete

\* the end of one pass: the outcome of the try block, then the catch block
\* for an error thrown inside it
Settle(outcome) ==
    /\ previousStatus' = outcome.previousStatus
    /\ lastProgressUpdate' = outcome.lastProgressUpdate
    /\ CASE outcome.kind = "return" ->
              /\ pc' = "returned"
              /\ log' = log \o outcome.events
              /\ result' = [kind |-> "returned", job |-> outcome.job,
                            outputUri |-> outcome.outputUri]
         [] outcome.kind = "break" ->
              \* the loop is left and the function ends without a value
              /\ pc' = "returned"
              /\ log' = log \o outcome.events
              /\ result' = [kind |-> "undefined"]
         [] outcome.kind = "sleep" ->
              /\ pc' = "sleeping"
              /\ log' = log \o outcome.events
              /\ result' = result
         [] outcome.kind = "throw" ->
              IF CatchRethrows(outcome.message)
              THEN /\ pc' = "thrown"
                   /\ log' = log \o outcome.events
                   /\ result' = [kind |-> "thrown", message |-> outcome.message]
              ELSE /\ log' = log \o outcome.events \o <<ErrorEvent(outcome.message)>>
                   /\ IF outcome.previousStatus = "COMPLETE"
                      THEN \* const finalJob = await getJobStatus(jobId)
                           \/ \E finalJob \in Jobs(service.echoes) :
                                 /\ pc' = "returned"
                                 /\ result' = [kind |-> "returned", job |-> finalJob,
                                               outputUri |-> FinalOutputUri(finalJob)]
                           \/ \E message \in PollErrorMessages :
                                 /\ pc' = "thrown"
                                 /\ result' = [kind |-> "thrown", message |-> message]
                      ELSE /\ pc' = "sleeping"
                           /\ result' = result

\* const job = await getJobStatus(jobId) answers with one of jobs, and the
\* pass runs on it
PollAnswers(jobs) ==
    /\ pc = "polling"
    /\ \E job \in jobs, latency \in Latencies :
          LET elapsedSeconds == clock + latency
          IN  /\ clock' = elapsedSeconds
              /\ polls' = Append(polls, [ok |-> TRUE, job |-> job])
              /\ Settle(TryBlock(job, elapsedSeconds, previousStatus,
                                 lastProgressUpdate, LastPercent(polls)))
    /\ UNCHANGED <<service, planVars, jobVars, overlayVars,
                   runVars, downloadVars>>

\* the service may answer anything
PollReturns == PollAnswers(Jobs(service.echoes))

\* await getJobStatus(jobId) throws: the pass goes straight to the catch block
PollThrows ==
    /\ pc = "polling"
    /\ \E message \in PollErrorMessages, latency \in Latencies :
          /\ clock' = clock + latency
          /\ polls' = Append(polls, [ok |-> FALSE, message |-> message])
          /\ Settle([kind |-> "throw", previousStatus |-> previousStatus,
                     lastProgressUpdate |-> lastProgressUpdate, events |-> <<>>,
                     message |-> message])
    /\ UNCHANGED <<service, planVars, jobVars, overlayVars,
                   runVars, downloadVars>>

\* await new Promise(resolve => setTimeout(resolve, pollIntervalMs)), then the
\* next pass of while (true) calls getJobStatus
SleepSkipped ==
    /\ pc = "sleeping"
    /\ Len(polls) < service.answers
    /\ pc' = "polling"
    /\ UNCHANGED <<service, previousStatus, lastProgressUpdate, clock, polls, log, result,
                   planVars, jobVars, overlayVars,
                   runVars, downloadVars>>

Sleep ==
    /\ pc = "sleeping"
    /\ Len(polls) < service.answers
    /\ clock' = clock + PollIntervalSeconds
    /\ pc' = "polling"
    /\ UNCHANGED <<service, previousStatus, lastProgressUpdate, polls, log, result, planVars,
                   jobVars, overlayVars,
                   runVars, downloadVars>>

PlanIdle ==
    /\ planPc = "idle"
    /\ videoMetadata = [width |-> 1920, height |-> 1080]
    /\ outputResolution = NoResolution
    /\ recheckedResolution = NoResolution

\* monitorJobProgress(jobId) has just been called
MonitorStarted ==
    /\ pc = "polling"
    /\ previousStatus = "null"
    /\ lastProgressUpdate = 0
    /\ clock = 0
    /\ polls = <<>>
    /\ log = <<>>
    /\ result = [kind |-> "none"]

Init ==
    /\ PlanIdle
    /\ service = [echoes |-> "core", answers |-> MaxPolls]
    /\ MonitorStarted
    /\ JobIdle
    /\ OverlayIdle
    /\ RunIdle
    /\ DownloadIdle

UriInit ==
    /\ PlanIdle
    /\ service = [echoes |-> "all", answers |-> MaxUriPolls]
    /\ MonitorStarted
    /\ JobIdle
    /\ OverlayIdle
    /\ RunIdle
    /\ DownloadIdle

Next == PollReturns \/ PollThrows \/ Sleep

\* the life of one monitored job
Spec == Init /\ [][Next]_vars

\* the same monitor against every shape of echoed settings
UriSpec == UriInit /\ [][Next]_vars

-----------------------------------------------------------------------------
(* The monitor against a remote job that advances (LiveSpec) *)

\* the statuses a remote job can move to from a status; the terminal ones
\* are final
RemoteSuccessors(status) ==
    IF status = "SUBMITTED" THEN {"PROGRESSING"} \cup TerminalStatuses
    ELSE IF status = "PROGRESSING" THEN TerminalStatuses
    ELSE {}

\* the remote job moves on in its lifecycle
RemoteAdvances ==
    /\ \E status \in RemoteSuccessors(service.status) :
          service' = [service EXCEPT !.status = status]
    /\ UNCHANGED <<pc, previousStatus, lastProgressUpdate, clock, polls, log, result,
                   planVars, jobVars, overlayVars,
                   runVars, downloadVars>>

\* from here on every status request is answered
RemoteRecovers ==
    /\ ~service.reliable
    /\ service' = [service EXCEPT !.reliable = TRUE]
    /\ UNCHANGED <<pc, previousStatus, lastProgressUpdate, clock, polls, log, result,
                   planVars, jobVars, overlayVars,
                   runVars, downloadVars>>

\* getJobStatus answers with the status the remote job has now
LivePollReturns ==
    PollAnswers({job \in Jobs(service.echoes) : job.Status = service.status})

\* getJobStatus fails while the service is still unreliable
LivePollThrows ==
    /\ ~service.reliable
    /\ PollThrows

LiveInit ==
    /\ PlanIdle
    /\ service = [echoes |-> "core", answers |-> MaxPolls,
                  status |-> "SUBMITTED", reliable |-> FALSE]
    /\ MonitorStarted
    /\ JobIdle
    /\ OverlayIdle
    /\ RunIdle
    /\ DownloadIdle

LiveNext ==
    LivePollReturns \/ LivePollThrows \/ Sleep \/ RemoteAdvances \/ RemoteRecovers

\* the poll step and the timer of the sleep are scheduled fairly; nothing is
\* assumed of the remote service
LiveSpec ==
    /\ LiveInit
    /\ [][LiveNext]_vars
    /\ WF_vars(LivePollReturns \/ LivePollThrows)
    /\ WF_vars(Sleep)

-----------------------------------------------------------------------------
(* Claims about the job monitor (checked under Spec, C5 and C6 under UriSpec) *)

Answered == SelectSeq(polls, LAMBDA a : a.ok)
AnsweredStatuses == [i \in 1 .. Len(Answered) |-> Answered[i].job.Status]
TransitionsLogged ==
    LET events == SelectSeq(log, LAMBDA e : e.kind = "transition")
    IN  [i \in 1 .. Len(events) |-> events[i].status]
LastAnswerIs(status) ==
    /\ polls # <<>>
    /\ Last(polls).ok
    /\ Last(polls).job.Status = status
Ended == pc \in {"returned", "thrown"}

\* a sequence with every run of equal neighbours reduced to one element
RECURSIVE Collapse(_)
Collapse(seq) ==
    IF Len(seq) <= 1 THEN seq
    ELSE LET front == SubSeq(seq, 1, Len(seq) - 1)
         IN  IF seq[Len(seq)] = seq[Len(seq) - 1]
             THEN Collapse(front)
             ELSE Append(Collapse(front), seq[Len(seq)])

\* C1: a transition event is emitted exactly when an answered poll carries a
\* status other than the last recorded one (the first answer always does), so
\* the events are the answered statuses with repeats collapsed; the polls
\* Submitted, Progressing, Progressing, Complete emit exactly 3 events.
C1_OneEventPerTransition ==
    /\ TransitionsLogged = Collapse(AnsweredStatuses)
    /\ AnsweredStatuses = <<"SUBMITTED", "PROGRESSING", "PROGRESSING", "COMPLETE">>
          => Len(TransitionsLogged) = 3

\* C1 witness: the four-poll scenario has run to its end
C1_Witness ==
    /\ pc = "returned"
    /\ AnsweredStatuses = <<"SUBMITTED", "PROGRESSING", "PROGRESSING", "COMPLETE">>
    /\ TransitionsLogged = <<"SUBMITTED", "PROGRESSING", "COMPLETE">>

\* C2: the monitor ends only on a poll answered Complete, Error or Canceled:
\* it returns only after Complete and throws only after Error or Canceled.
C2_EndsOnlyOnTerminalAnswer ==
    Ended =>
        /\ polls # <<>>
        /\ Last(polls).ok
        /\ pc = "returned" => Last(polls).job.Status = "COMPLETE"
        /\ pc = "thrown" => Last(polls).job.Status \in {"ERROR", "CANCELED"}

\* C3: every getJobStatus call that throws, whatever its message, is logged and
\* followed by a sleep of one interval, leaves previousStatus and
\* lastProgressUpdate as they were, and does not end the monitor.
C3_PollFailureIsRetried ==
    [][(Len(polls') = Len(polls) + 1 /\ ~Last(polls').ok) =>
          /\ pc' = "sleeping"
          /\ previousStatus' = previousStatus
          /\ lastProgressUpdate' = lastProgressUpdate
          /\ log' = Append(log, [kind |-> "error", message |-> Last(polls').message])]_vars

\* C4: an Error answer ends the monitor with a failure carrying the remote
\* message ("Unknown error" when there is none), a Canceled answer ends it with
\* the cancellation failure, and no remote message makes the two alike.
C4_DistinctFailures ==
    /\ LastAnswerIs("ERROR") =>
          /\ pc = "thrown"
          /\ result.kind = "thrown"
          /\ result.message =
                <<"MediaConvert", "job", "failed:">>
                   \o (IF Last(polls).job.ErrorMessage = <<>>
                       THEN <<"Unknown", "error">>
                       ELSE Last(polls).job.ErrorMessage)
          /\ result.message # <<"MediaConvert", "job", "was", "canceled">>
    /\ LastAnswerIs("CANCELED") =>
          /\ pc = "thrown"
          /\ result.kind = "thrown"
          /\ result.message = <<"MediaConvert", "job", "was", "canceled">>
          /\ \A m \in RemoteErrorMessages \cup {<<"Unknown", "error">>} :
                result.message # <<"MediaConvert", "job", "failed:">> \o m

\* C4 witness: a job failed with a remote message that reads like a cancellation
C4_Witness ==
    /\ LastAnswerIs("ERROR")
    /\ Last(polls).job.ErrorMessage = <<"was", "canceled">>
    /\ pc = "thrown"
    /\ result.message = <<"MediaConvert", "job", "failed:", "was", "canceled">>

\* a field the URI cannot be rebuilt without is absent from the echoed settings
C5_FieldMissing(job) ==
    \/ job.Settings = None
    \/ Get(job.Settings).OutputGroups \in {None, Some(<<>>)}
    \/ Get(job.Settings).Inputs \in {None, Some(<<>>)}
    \/ Get(Get(job.Settings).Inputs)[1].FileInput = None
    \/ Get(Get(job.Settings).OutputGroups)[1].Destination = None
    \/ Get(Get(job.Settings).OutputGroups)[1].Outputs = Some(<<>>)

\* C5: whatever the shape of the echoed settings, a Complete answer makes the
\* monitor return that job; a URI that cannot be rebuilt is never a thrown
\* error nor a retry, only outputUri = null and the best-effort location.
C5_CompleteAlwaysReturns ==
    LastAnswerIs("COMPLETE") =>
        /\ pc = "returned"
        /\ result.kind = "returned"
        /\ result.job = Last(polls).job
        /\ C5_FieldMissing(Last(polls).job) =>
              /\ result.outputUri = None
              /\ Last(log).kind = "output-location"

\* C5 witness: a completed job echoed no destination and the monitor returned
C5_Witness ==
    /\ LastAnswerIs("COMPLETE")
    /\ Last(polls).job.Settings # None
    /\ Get(Last(polls).job.Settings).OutputGroups \notin {None, Some(<<>>)}
    /\ Get(Last(polls).job.Settings).Inputs = OneInput(Some(<<"v">>))
    /\ Get(Get(Last(polls).job.Settings).OutputGroups)[1].Destination = None
    /\ pc = "returned"
    /\ result.outputUri = None

\* the text after the last "/" of a path whose trailing "/"s are dropped
RECURSIVE C6_DropSlashes(_)
C6_DropSlashes(path) ==
    IF path # <<>> /\ Last(path) = "/"
    THEN C6_DropSlashes(SubSeq(path, 1, Len(path) - 1))
    ELSE path
RECURSIVE C6_LastSegment(_)
C6_LastSegment(path) ==
    IF path = <<>> \/ Last(path) = "/"
    THEN <<>>
    ELSE Append(C6_LastSegment(SubSeq(path, 1, Len(path) - 1)), Last(path))
\* a file name up to its last ".", unless that "." is its first character
RECURSIVE C6_DropExtension(_)
C6_DropExtension(name) ==
    IF Len(name) <= 1 THEN name
    ELSE IF Last(name) = "." THEN SubSeq(name, 1, Len(name) - 1)
    ELSE LET shorter == C6_DropExtension(SubSeq(name, 1, Len(name) - 1))
         IN  IF Len(shorter) = Len(name) - 1 THEN name ELSE shorter

C6_AllPresent(job) ==
    /\ ~C5_FieldMissing(job)
    /\ Get(Get(job.Settings).OutputGroups)[1].Outputs # None
    /\ Get(Get(Get(job.Settings).OutputGroups)[1].Outputs)[1].NameModifier # None
    /\ Get(Get(Get(job.Settings).OutputGroups)[1].Outputs)[1].Container # None

C6_Expected(job) ==
    LET group == Get(Get(job.Settings).OutputGroups)[1]
        output == Get(group.Outputs)[1]
        destination == Get(group.Destination)
        fileInput == Get(Get(Get(job.Settings).Inputs)[1].FileInput)
    IN  (IF destination # <<>> /\ Last(destination) = "/"
         THEN SubSeq(destination, 1, Len(destination) - 1)
         ELSE destination)
        \o <<"/">>
        \o C6_DropExtension(C6_LastSegment(C6_DropSlashes(fileInput)))
        \o Get(output.NameModifier)
        \o (IF Get(output.Container) = "MOV"
            THEN <<".", "m", "o", "v">>
            ELSE <<".", "m", "p", "4">>)

\* C6: with a destination, an input file, a name modifier and a container in
\* the echoed settings of a completed job, outputUri is the destination less
\* one trailing "/", then "/", the input's base name without its extension,
\* the name modifier, and ".mov" for MOV, ".mp4" for any other container.
C6_OutputUri ==
    (LastAnswerIs("COMPLETE") /\ C6_AllPresent(Last(polls).job)) =>
        /\ pc = "returned"
        /\ result.outputUri = Some(C6_Expected(Last(polls).job))

\* C6 witness: a MOV job with a slash-ended destination has been located
C6_Witness ==
    /\ LastAnswerIs("COMPLETE")
    /\ Last(polls).job.Settings =
          EchoedSettings(Some(<<"d", "/">>), OneOutput(Some(<<"_", "7">>), Some("MOV")),
                         OneInput(Some(<<"i", "/", "v", ".", "m">>)))
    /\ result.outputUri = Some(<<"d", "/", "v", "_", "7", ".", "m", "o", "v">>)

\* C7: an unchanged Progressing answer emits a progress event only if 10 s have
\* passed since the last one or the percent complete differs from the one of
\* the previous poll; an emitted event sets lastProgressUpdate to elapsedSeconds.
C7_ProgressOnlyWhenDue ==
    /\ \A i \in DOMAIN log :
          log[i].kind = "progress" =>
             \/ log[i].elapsed - log[i].lastUpdate >= 10
             \/ (log[i].percent # "undefined" /\ log[i].percent # log[i].lastPercent)
    /\ (log # <<>> /\ Last(log).kind = "progress") =>
          lastProgressUpdate = Last(log).elapsed

-----------------------------------------------------------------------------
(* Overlay sequence generator *)

\* number.toString(), as a sequence of characters
DigitChars == <<"0", "1", "2", "3", "4", "5", "6", "7", "8", "9">>
RECURSIVE NumberToString(_)
NumberToString(n) ==
    IF n < 10 THEN <<DigitChars[n + 1]>>
    ELSE Append(NumberToString(n \div 10), DigitChars[(n % 10) + 1])

\* string.padStart(2, '0')
PadStart2(string) == IF Len(string) >= 2 THEN string ELSE <<"0">> \o string

\* secondsToTimecode(totalMs / 1000, frames): the argument is kept in whole
\* milliseconds, so Math.floor(totalSeconds / 3600) is totalMs \div 3600000,
\* Math.floor((totalSeconds % 3600) / 60) is (totalMs % 3600000) \div 60000
\* and Math.floor(totalSeconds % 60) is (totalMs % 60000) \div 1000
secondsToTimecodeSecondsUnwrapped(totalMs, frames) ==
    LET hours == totalMs \div 3600000
        minutes == (totalMs % 3600000) \div 60000
        seconds == totalMs \div 1000
    IN  PadStart2(NumberToString(hours)) \o <<":">> \o PadStart2(NumberToString(minutes)) \o <<":">>
            \o PadStart2(NumberToString(seconds)) \o <<":">> \o PadStart2(NumberToString(frames))

secondsToTimecode(totalMs, frames) ==
    LET hours == totalMs \div 3600000
        minutes == (totalMs % 3600000) \div 60000
        seconds == (totalMs % 60000) \div 1000
    IN  PadStart2(NumberToString(hours)) \o <<":">> \o PadStart2(NumberToString(minutes)) \o <<":">>
            \o PadStart2(NumberToString(seconds)) \o <<":">> \o PadStart2(NumberToString(frames))

\* const corners = [top-left, bottom-right]
Corners(o) ==
    << [name |-> "top-left", x |-> o.offset, y |-> o.offset],
       [name |-> "bottom-right", x |-> o.videoWidth - o.watermarkSize - o.offset,
                                 y |-> o.videoHeight - o.watermarkSize - o.offset] >>

\* Math.ceil(videoDurationMs / sequenceDurationMs)
numberOfSequences(o) ==
    LET sequenceDurationMs == o.durationMs * Len(Corners(o))
    IN  (o.videoDurationMs + sequenceDurationMs - 1) \div sequenceDurationMs

\* the passes of the two nested loops in order: pass k (from 1) is corner
\* cornerIndex of sequence sequenceIndex
LoopPasses(o) ==
    LET corners == Corners(o)
        sequenceDurationMs == o.durationMs * Len(corners)
    IN  [k \in 1 .. numberOfSequences(o) * Len(corners) |->
            LET sequenceIndex == (k - 1) \div Len(corners)
                cornerIndex == (k - 1) % Len(corners)
            IN  [corner |-> corners[cornerIndex + 1],
                 watermarkStartMs |-> sequenceIndex * sequenceDurationMs
                                         + cornerIndex * o.durationMs]]

\* Duration: Math.floor(watermarkDuration), the per-corner duration or what is
\* left of the video
generateWatermarkSequenceUntruncated(o) ==
    LET pushed == SelectSeq(LoopPasses(o),
                            LAMBDA pass : pass.watermarkStartMs < o.videoDurationMs)
    IN  [i \in 1 .. Len(pushed) |->
            [Layer |-> i - 1, Opacity |-> o.opacity,
             Width |-> o.watermarkSize, Height |-> o.watermarkSize,
             Duration |-> Some(o.durationMs),
             StartTime |-> Some(secondsToTimecode(pushed[i].watermarkStartMs, 0)),
             ImageX |-> pushed[i].corner.x, ImageY |-> pushed[i].corner.y]]

generateWatermarkSequence(o) ==
    LET pushed == SelectSeq(LoopPasses(o),
                            LAMBDA pass : pass.watermarkStartMs < o.videoDurationMs)
    IN  [i \in 1 .. Len(pushed) |->
            LET watermarkStartMs == pushed[i].watermarkStartMs
                watermarkDuration ==
                    IF watermarkStartMs + o.durationMs > o.videoDurationMs
                    THEN o.videoDurationMs - watermarkStartMs
                    ELSE o.durationMs
            IN  [Layer |-> i - 1, Opacity |-> o.opacity,
                 Width |-> o.watermarkSize, Height |-> o.watermarkSize,
                 Duration |-> Some(watermarkDuration),
                 StartTime |-> Some(secondsToTimecode(watermarkStartMs, 0)),
                 ImageX |-> pushed[i].corner.x, ImageY |-> pushed[i].corner.y]]

\* two placements for the whole video: no StartTime, no Duration
generateStaticWatermarks(o) ==
    << [Layer |-> 0, Opacity |-> o.opacity,
        Width |-> o.watermarkSize, Height |-> o.watermarkSize,
        Duration |-> None, StartTime |-> None,
        ImageX |-> o.offset, ImageY |-> o.offset],
       [Layer |-> 1, Opacity |-> o.opacity,
        Width |-> o.watermarkSize, Height |-> o.watermarkSize,
        Duration |-> None, StartTime |-> None,
        ImageX |-> o.videoWidth - o.watermarkSize - o.offset,
        ImageY |-> o.videoHeight - o.watermarkSize - o.offset] >>

\* Math.floor(Math.max(smallerDimension * percentSize / 100, minSize))
calculateWatermarkSize(videoWidth, videoHeight, percentSize, minSize) ==
    LET smallerDimension == Min(videoWidth, videoHeight)
    IN  Max((smallerDimension * percentSize) \div 100, minSize)

\* percentOffset = Math.max(3, Math.min(5, smallerDimension / 400)) is 3 up to
\* 1200, smallerDimension / 400 up to 2000 and 5 above; the offset is
\* Math.max(Math.floor(smallerDimension * percentOffset / 100), 20)
calculateWatermarkOffset(videoWidth, videoHeight) ==
    LET smallerDimension == Min(videoWidth, videoHeight)
        offset == IF smallerDimension <= 1200 THEN (smallerDimension * 3) \div 100
                  ELSE IF smallerDimension >= 2000 THEN (smallerDimension * 5) \div 100
                  ELSE (smallerDimension * smallerDimension) \div 40000
    IN  Max(offset, 20)

-----------------------------------------------------------------------------
(* createMediaConvertJob: the metadata probe *)

\* let videoMetadata = { durationMs: 15000, width: 1920, height: 1080,
\* bitrate: 5000000 }: the object has no colorSpace property
DefaultVideoMetadata ==
    [durationMs |-> 15000, width |-> 1920, height |-> 1080, bitrate |-> 5000000,
     colorSpace |-> None]

\* what ffprobe can report of a source: stream sizes, the rotation side data
\* (0 when there is none), format.duration in microseconds, the bit_rate of
\* the video stream and of the format (None when absent), and the pix_fmt
\* line (None when that ffprobe call throws)
JobDims == {2, 97, 120, 1079, 1080, 1920, 1921, 2561, 3840}
Rotations == {0, 90, -90, 180}
ProbedDurations == {1001000, 4999500, 12000000, 15000000}
StreamBitRates == {None, Some(1079000), Some(5000000), Some(8000000), Some(12000000)}
FormatBitRates == {None, Some(6000000)}
PixFmts == {None, Some("yuv420p"), Some("yuvj420p"), Some("yuv420p10le"), Some("yuv444p")}
FfprobeAnswers ==
    [width : JobDims, height : JobDims, rotation : Rotations,
     duration : ProbedDurations, streamBitRate : StreamBitRates,
     formatBitRate : FormatBitRates, pixFmt : PixFmts]

\* a || b: the first operand unless it is undefined or 0
Truthy(o) == IsDefined(o) /\ Get(o) # 0

\* Math.floor(metadata.format.duration * 1000): the product of the double
\* nearest to the reported seconds by 1000.  When the true product is a whole
\* number of ms and the seconds are not exactly a double, the double product
\* is that whole number or the double just below it (1.001 * 1000 is
\* 1000.9999999999999)
FloorDurationMs(microseconds) ==
    LET ms == microseconds \div 1000
    IN  IF microseconds % 1000 = 0 /\ ~ExactScaleFactor(microseconds, 1000000)
        THEN {ms - 1, ms} ELSE {ms}

\* the objects getVideoMetadata can resolve with for one ffprobe answer
getVideoMetadata(ffprobe) ==
    LET swap == ffprobe.rotation \in {90, -90, 270, -270}
        bitrate == IF Truthy(ffprobe.streamBitRate) THEN Get(ffprobe.streamBitRate)
                   ELSE IF Truthy(ffprobe.formatBitRate) THEN Get(ffprobe.formatBitRate)
                   ELSE 0
        colorSpace == IF IsDefined(ffprobe.pixFmt) THEN Get(ffprobe.pixFmt) ELSE "unknown"
    IN  {[durationMs |-> durationMs,
          width |-> IF swap THEN ffprobe.height ELSE ffprobe.width,
          height |-> IF swap THEN ffprobe.width ELSE ffprobe.height,
          bitrate |-> bitrate,
          colorSpace |-> Some(colorSpace)] : durationMs \in FloorDurationMs(ffprobe.duration)}

-----------------------------------------------------------------------------
(* createMediaConvertJob: the plan *)

\* const maxBitrate = 10000000
maxBitrate == 10000000

\* Math.floor(videoMetadata.bitrate * scaleFactor), scaleFactor the double
\* nearest to factor.num / factor.den.  The product is computed without
\* leaving 32 bits: bitrate = k * den + r gives k * num + (r * num) / den.
\* When the true product is a whole number and the factor is not exactly a
\* double, the double product is that number or the double just below it
scaledBitrate(bitrate, factor) ==
    LET rest == (bitrate % factor.den) * factor.num
        floor == (bitrate \div factor.den) * factor.num + rest \div factor.den
    IN  IF bitrate # 0 /\ rest % factor.den = 0 /\ ~ExactScaleFactor(factor.num, factor.den)
        THEN {floor - 1, floor} ELSE {floor}

\* Math.min(scaledBitrate, maxBitrate)
outputBitrateUncapped(scaled) == scaled
outputBitrate(scaled) == Min(scaled, maxBitrate)

\* problematicColorSpaces.includes(videoMetadata.colorSpace)
problematicColorSpaces == {"yuv420p10le", "yuv420p", "yuvj420p"}
needsStaticWatermarkYuvjOnly(colorSpace) ==
    IsDefined(colorSpace) /\ Get(colorSpace) = "yuvj420p"
needsStaticWatermarkOrUndefined(colorSpace) ==
    ~IsDefined(colorSpace) \/ Get(colorSpace) \in {"yuv420p10le", "yuv420p", "yuvj420p"}
needsStaticWatermark(colorSpace) ==
    IsDefined(colorSpace) /\ Get(colorSpace) \in problematicColorSpaces

\* the options both generators are called with
WatermarkOptions(metadata, resolution) ==
    [videoWidth |-> resolution.width, videoHeight |-> resolution.height,
     videoDurationMs |-> metadata.durationMs,
     watermarkSize |-> calculateWatermarkSize(resolution.width, resolution.height, 10, 80),
     offset |-> calculateWatermarkOffset(resolution.width, resolution.height),
     durationMs |-> 5000, opacity |-> 80]

watermarkSequence(metadata, resolution) ==
    IF needsStaticWatermark(metadata.colorSpace)
    THEN generateStaticWatermarks(WatermarkOptions(metadata, resolution))
    ELSE generateWatermarkSequence(WatermarkOptions(metadata, resolution))

\* the fields of jobSettings that the plan decides
JobSettings(metadata, resolution, scaled) ==
    [Width |-> resolution.width, Height |-> resolution.height,
     MaxBitrate |-> outputBitrate(scaled),
     InsertableImages |-> watermarkSequence(metadata, resolution)]

-----------------------------------------------------------------------------
(* createMediaConvertJob: the steps of one call *)

\* videoMetadata = await getVideoMetadata(localFilePath) resolves, ffprobe
\* having reported one of answers
ProbeAnswers(answers) ==
    /\ jobPc = "probing"
    /\ \E ffprobe \in answers :
          \E metadata \in getVideoMetadata(ffprobe) : videoMetadata' = metadata
    /\ probe' = "resolved"
    /\ jobPc' = "planning"
    /\ UNCHANGED <<planPc, outputResolution, recheckedResolution, localFilePath,
                   jobSettings, createJobCommands, monVars, overlayVars,
                   runVars, downloadVars>>

\* any source may be probed
ProbeResolves == ProbeAnswers(FfprobeAnswers)

\* getVideoMetadata rejects: the warning is logged and the defaults stay
ProbeRejects ==
    /\ jobPc = "probing"
    /\ probe' = "rejected"
    /\ jobPc' = "planning"
    /\ UNCHANGED <<planVars, localFilePath, jobSettings, createJobCommands,
                   monVars, overlayVars,
                   runVars, downloadVars>>

\* NameModifier: `_${Date.now()}`
NameModifier(time) == <<"_">> \o NumberToString(time)

\* the plan is computed and await mediaConvertClient.send(command) is
\* answered: the call returns the job id, or logs and rethrows the error
SendCreateJob(outcome) ==
    /\ jobPc = "planning"
    /\ \E resolution \in calculateOutputResolution(videoMetadata.width,
                                                   videoMetadata.height, MaxLongEdge) :
          \E scaled \in scaledBitrate(videoMetadata.bitrate,
                                      scaleFactor(resolution, videoMetadata)) :
             /\ outputResolution' = resolution
             /\ jobSettings' = JobSettings(videoMetadata, resolution, scaled)
    /\ createJobCommands' = createJobCommands + 1
    /\ submissions' = Append(submissions, [FileInput |-> s3Uri,
                                           NameModifier |-> NameModifier(dateNow),
                                           accepted |-> (outcome = "returned")])
    /\ jobPc' = outcome
    /\ UNCHANGED <<planPc, videoMetadata, recheckedResolution, localFilePath, probe,
                   monVars, overlayVars,
                   s3Uri, dateNow, mainPc, downloadVars>>

CreateJobResolves == SendCreateJob("returned")
CreateJobRejects == SendCreateJob("thrown")

\* createMediaConvertJob(s3Uri, localFilePath) has just been called, with
\* or without a local file to probe
JobInit ==
    /\ planPc = "idle"
    /\ videoMetadata = DefaultVideoMetadata
    /\ outputResolution = NoResolution
    /\ recheckedResolution = NoResolution
    /\ localFilePath \in {"null", "/tmp/source.mov"}
    /\ jobPc = IF localFilePath = "null" THEN "planning" ELSE "probing"
    /\ probe = IF localFilePath = "null" THEN "skipped" ELSE "none"
    /\ jobSettings = NoJob
    /\ createJobCommands = 0
    /\ s3Uri = "s3://bucket/input/source.mov"
    /\ dateNow = 0
    /\ submissions = <<>>
    /\ mainPc = "idle"
    /\ MonitorIdle
    /\ OverlayIdle
    /\ DownloadIdle

JobNext == ProbeResolves \/ ProbeRejects \/ CreateJobResolves \/ CreateJobRejects

JobSpec == JobInit /\ [][JobNext]_vars

-----------------------------------------------------------------------------
(* createMediaConvertJob called again and again while the wall clock runs *)

\* the uploaded sources submitted
SourceUris == {"s3://bucket/input/a.mov", "s3://bucket/input/b.mov"}

\* Date.now() reads one millisecond more
ClockTicks ==
    /\ dateNow < MaxMilliseconds
    /\ dateNow' = dateNow + 1
    /\ UNCHANGED <<s3Uri, submissions, mainPc, planVars, monVars, jobVars, overlayVars,
                   downloadVars>>

\* createMediaConvertJob(s3Uri) is called once more, by this run of the tool
\* or by another one, after the call before it returned or threw
CallAgain ==
    /\ jobPc \in {"returned", "thrown"}
    /\ Len(submissions) < MaxSubmissions
    /\ s3Uri' \in SourceUris
    /\ localFilePath' = "null"
    /\ jobPc' = "planning"
    /\ probe' = "skipped"
    /\ jobSettings' = NoJob
    /\ createJobCommands' = 0
    /\ videoMetadata' = DefaultVideoMetadata
    /\ outputResolution' = NoResolution
    /\ UNCHANGED <<planPc, recheckedResolution, dateNow, submissions, mainPc, monVars,
                   overlayVars, downloadVars>>

ResubmitInit ==
    /\ planPc = "idle"
    /\ videoMetadata = DefaultVideoMetadata
    /\ outputResolution = NoResolution
    /\ recheckedResolution = NoResolution
    /\ localFilePath = "null"
    /\ jobPc = "planning"
    /\ probe = "skipped"
    /\ jobSettings = NoJob
    /\ createJobCommands = 0
    /\ s3Uri \in SourceUris
    /\ dateNow = 0
    /\ submissions = <<>>
    /\ mainPc = "idle"
    /\ MonitorIdle
    /\ OverlayIdle
    /\ DownloadIdle

ResubmitNext == ClockTicks \/ CallAgain \/ CreateJobResolves \/ CreateJobRejects

ResubmitSpec == ResubmitInit /\ [][ResubmitNext]_vars

-----------------------------------------------------------------------------
(* generateWatermarkSequence applied to a duration and a per-corner duration *)

\* video durations tried, in ms: every half second up to MaxHalfSeconds,
\* durations one ms off a corner boundary, and durations of minutes and hours
VideoDurations ==
    {k * 500 : k \in 1 .. MaxHalfSeconds}
        \cup {1, 999, 4999, 5001, 9999, 10001, 125000, 3725000}
\* per-corner durations tried, in ms
PerCornerDurations == {500, 1000, 1500, 2000, 5000, 61000, 1800000}

GenerateWatermarkSequence ==
    /\ overlayPc = "called"
    /\ watermarks' = generateWatermarkSequence(options)
    /\ overlayPc' = "returned"
    /\ UNCHANGED <<options, planVars, monVars, jobVars,
                   runVars, downloadVars>>

OverlayInit ==
    /\ overlayPc = "called"
    /\ \E videoDurationMs \in VideoDurations, durationMs \in PerCornerDurations :
          /\ (videoDurationMs + durationMs - 1) \div durationMs <= MaxPlacements
          /\ options = [videoWidth |-> 1920, videoHeight |-> 1080,
                        videoDurationMs |-> videoDurationMs,
                        watermarkSize |-> 100, offset |-> 50, durationMs |-> durationMs,
                        opacity |-> 80]
    /\ watermarks = <<>>
    /\ PlanIdle
    /\ MonitorIdle
    /\ JobIdle
    /\ RunIdle
    /\ DownloadIdle

OverlayNext == GenerateWatermarkSequence

OverlaySpec == OverlayInit /\ [][OverlayNext]_vars

-----------------------------------------------------------------------------
(* Claims about the looping overlay sequence (checked under OverlaySpec) *)

\* the number a sequence of digit characters writes
RECURSIVE ParseDigits(_)
ParseDigits(string) ==
    IF string = <<>> THEN 0
    ELSE 10 * ParseDigits(SubSeq(string, 1, Len(string) - 1))
            + (CHOOSE d \in 0 .. 9 : DigitChars[d + 1] = string[Len(string)])

\* the fields of an HH:MM:SS:FF timecode, as numbers
TimecodeFields(timecode) ==
    LET colons == {i \in 1 .. Len(timecode) : timecode[i] = ":"}
        colon(n) == CHOOSE i \in colons : Cardinality({j \in colons : j < i}) = n - 1
    IN  [hours |-> ParseDigits(SubSeq(timecode, 1, colon(1) - 1)),
         minutes |-> ParseDigits(SubSeq(timecode, colon(1) + 1, colon(2) - 1)),
         seconds |-> ParseDigits(SubSeq(timecode, colon(2) + 1, colon(3) - 1)),
         frames |-> ParseDigits(SubSeq(timecode, colon(3) + 1, Len(timecode)))]

\* the instant, in ms, at which a placement is shown: its StartTime read back
PlacementStartMs(placement) ==
    LET t == TimecodeFields(Get(placement.StartTime))
    IN  (t.hours * 3600 + t.minutes * 60 + t.seconds) * 1000
PlacementEndMs(placement) == PlacementStartMs(placement) + Get(placement.Duration)

C27_TimecodeMatchesStart ==
    (overlayPc = "returned" /\ options.durationMs % 1000 = 0) =>
        \A i \in 1 .. Len(watermarks) :
            LET timecode == Get(watermarks[i].StartTime)
                t == TimecodeFields(timecode)
            IN  /\ Len(timecode) = 11
                /\ SubSeq(timecode, 10, 11) = <<"0", "0">>
                /\ t.minutes < 60
                /\ t.seconds < 60
                /\ (t.hours * 3600 + t.minutes * 60 + t.seconds) * 1000
                      = (i - 1) * options.durationMs
                /\ IsDefined(watermarks[i].Duration)
                /\ Get(watermarks[i].Duration) \in Nat

\* a placement of a whole-second schedule starting past the first hour, at a
\* time with hours, minutes and seconds all non-zero
C27_Witness ==
    /\ overlayPc = "returned"
    /\ options.durationMs % 1000 = 0
    /\ \E i \in 1 .. Len(watermarks) :
          LET t == TimecodeFields(Get(watermarks[i].StartTime))
          IN  t.hours > 0 /\ t.minutes > 0 /\ t.seconds > 0

-----------------------------------------------------------------------------
(* Claims about createMediaConvertJob (checked under JobSpec) *)

\* the create-job request has been sent and answered
Submitted == jobPc \in {"returned", "thrown"}
PlannedFactor == scaleFactor(outputResolution, videoMetadata)

\* C13: whenever the source long edge is <= 1920 (any width, height >= 2, odd
\* or even) the bitrate scale factor is exactly 1, so the output bitrate is
\* min(source bitrate, cap)
C13_UnscaledBitrate ==
    (Submitted /\ Max(videoMetadata.width, videoMetadata.height) <= 1920) =>
        /\ PlannedFactor.num = PlannedFactor.den
        /\ jobSettings.MaxBitrate = Min(videoMetadata.bitrate, maxBitrate)

\* floor(bitrate * num / den), and the number below it where the double
\* product of a whole result can fall short
C14_Floors(bitrate, num, den) ==
    LET whole == (bitrate \div den) * num + ((bitrate % den) * num) \div den
        isWhole == ((bitrate % den) * num) % den = 0
        dyadic == IsPowerOfTwo(den \div GCD(num, den))
    IN  IF bitrate > 0 /\ isWhole /\ ~dyadic THEN {whole - 1, whole} ELSE {whole}

C15_DefaultBitrateSubstituted ==
    (Submitted /\ jobSettings.Width > 0 /\ jobSettings.Height > 0) =>
        /\ jobSettings.MaxBitrate # 0
        /\ videoMetadata.bitrate = 0 =>
              \E floor \in C14_Floors(5000000, PlannedFactor.num, PlannedFactor.den) :
                 jobSettings.MaxBitrate = Min(floor, maxBitrate)

\* C16: the H.264 MaxBitrate of the submitted job never exceeds 5,000,000 bps
C16_AtMostFiveMbps ==
    Submitted => jobSettings.MaxBitrate <= 5000000

StaticTriggers == {"yuv420p10le", "yuv420p", "yuvj420p"}
PlannedSize == calculateWatermarkSize(jobSettings.Width, jobSettings.Height, 10, 80)
PlannedOffset == calculateWatermarkOffset(jobSettings.Width, jobSettings.Height)

C19_PlacementsInFrame ==
    Submitted =>
        \A i \in 1 .. Len(jobSettings.InsertableImages) :
            LET image == jobSettings.InsertableImages[i]
            IN  /\ image.ImageX >= 0 /\ image.ImageY >= 0
                /\ image.ImageX + image.Width <= jobSettings.Width
                /\ image.ImageY + image.Height <= jobSettings.Height

\* C20: when the metadata probe fails the call goes on with the defaults and
\* sends exactly one create-job request, for 1920x1080 at 5,000,000 bps with
\* the looping plan of a 15000 ms video: placements at 0, 5000 and 10000 ms of
\* 5000 ms each
C20_ProbeFailurePlansDefaults ==
    probe = "rejected" =>
        /\ jobPc \in {"planning", "returned", "thrown"}
        /\ videoMetadata = DefaultVideoMetadata
        /\ Submitted =>
              LET images == jobSettings.InsertableImages
              IN  /\ createJobCommands = 1
                  /\ jobSettings.Width = 1920 /\ jobSettings.Height = 1080
                  /\ jobSettings.MaxBitrate = 5000000
                  /\ Len(images) = 3
                  /\ \A i \in 1 .. 3 :
                        /\ images[i].Layer = i - 1
                        /\ images[i].StartTime # None
                        /\ PlacementStartMs(images[i]) = (i - 1) * 5000
                        /\ images[i].Duration = Some(5000)

\* C20 witness: the probe failed and the job was created all the same
C20_Witness ==
    /\ probe = "rejected"
    /\ jobPc = "returned"
    /\ createJobCommands = 1
    /\ jobSettings.Width = 1920
    /\ Len(jobSettings.InsertableImages) = 3

-----------------------------------------------------------------------------
(* downloadFromS3 and waitForS3Object (upload.js) *)

\* waitForS3Object(bucket, key, 12, 5000)
maxAttempts == 12
delayMs == 5000

\* s3Uri.match(/^s3:\/\/([^/]+)\/(.+)$/): the bucket runs to the first slash
\* after the scheme and the key is all that follows; both must be non-empty
S3UriMatch(uri) ==
    LET scheme == <<"s", "3", ":", "/", "/">>
        slashes == {k \in Len(scheme) + 1 .. Len(uri) : uri[k] = "/"}
        first == CHOOSE k \in slashes : \A other \in slashes : k <= other
    IN  IF /\ Len(uri) > Len(scheme)
           /\ SubSeq(uri, 1, Len(scheme)) = scheme
           /\ slashes # {}
           /\ first > Len(scheme) + 1
           /\ first < Len(uri)
        THEN Some([bucket |-> SubSeq(uri, Len(scheme) + 1, first - 1),
                   key |-> SubSeq(uri, first + 1, Len(uri))])
        ELSE None

\* error.name of a HeadObject request that means the object is not there yet
NotFoundNames == {"NotFound", "NoSuchKey"}
\* error.name of any other failure of a HeadObject request
OtherErrorNames == {"AccessDenied"}

\* what waitForS3Object makes of a HeadObject request that failed with name
HeadOutcome(name) == IF name \in NotFoundNames THEN "notFound" ELSE "error"

InvalidS3UriError == <<"Invalid", "S3", "URI", "format">>
FileNotFoundError == <<"File", "not", "found", "in", "S3", "after", "waiting">>
HeadObjectError == <<"HeadObject", "failed">>
GetObjectError == <<"GetObject", "failed">>

\* the URI is parsed: waitForS3Object is called, or the URI is rejected
ParseS3Uri ==
    /\ downloadPc = "called"
    /\ IF IsDefined(S3UriMatch(outputUri))
       THEN downloadPc' = "checking" /\ downloadError' = downloadError
       ELSE downloadPc' = "thrown" /\ downloadError' = InvalidS3UriError
    /\ UNCHANGED <<fileExists, outputUri, heads, waitedMs, localFile,
                   planVars, monVars, jobVars, overlayVars, runVars>>

\* await s3Client.send(headCommand) resolves: waitForS3Object returns true,
\* the output directory is made and the GetObject request is sent
HeadFound ==
    /\ downloadPc = "checking"
    /\ heads' = Append(heads, "found")
    /\ fileExists' = "true"
    /\ downloadPc' = "fetching"
    /\ UNCHANGED <<outputUri, waitedMs, localFile, downloadError,
                   planVars, monVars, jobVars, overlayVars, runVars>>

HeadNotFoundThenFetch ==
    /\ downloadPc = "checking"
    /\ \E name \in NotFoundNames : heads' = Append(heads, HeadOutcome(name))
    /\ IF Len(heads) + 1 < maxAttempts
       THEN downloadPc' = "waiting" /\ fileExists' = fileExists
       ELSE downloadPc' = "fetching" /\ fileExists' = "false"
    /\ UNCHANGED <<outputUri, waitedMs, localFile, downloadError,
                   planVars, monVars, jobVars, overlayVars, runVars>>

\* the request fails with NotFound or NoSuchKey: before the last attempt the
\* loop goes to sleep; on the last one waitForS3Object returns false and
\* downloadFromS3 throws
HeadNotFound ==
    /\ downloadPc = "checking"
    /\ \E name \in NotFoundNames : heads' = Append(heads, HeadOutcome(name))
    /\ IF Len(heads) + 1 < maxAttempts
       THEN /\ downloadPc' = "waiting"
            /\ fileExists' = fileExists
            /\ downloadError' = downloadError
       ELSE /\ downloadPc' = "thrown"
            /\ fileExists' = "false"
            /\ downloadError' = FileNotFoundError
    /\ UNCHANGED <<outputUri, waitedMs, localFile,
                   planVars, monVars, jobVars, overlayVars, runVars>>

\* the request fails with any other error: it is rethrown
HeadFails ==
    /\ downloadPc = "checking"
    /\ \E name \in OtherErrorNames : heads' = Append(heads, HeadOutcome(name))
    /\ downloadPc' = "thrown"
    /\ downloadError' = HeadObjectError
    /\ UNCHANGED <<fileExists, outputUri, waitedMs, localFile,
                   planVars, monVars, jobVars, overlayVars, runVars>>

\* await new Promise(resolve => setTimeout(resolve, delayMs)), then the next
\* attempt
WaitElapses ==
    /\ downloadPc = "waiting"
    /\ waitedMs' = waitedMs + delayMs
    /\ downloadPc' = "checking"
    /\ UNCHANGED <<fileExists, outputUri, heads, localFile, downloadError,
                   planVars, monVars, jobVars, overlayVars, runVars>>

\* the object is received and fs.writeFileSync(localOutputPath, buffer) runs
GetObjectResolves ==
    /\ downloadPc = "fetching"
    /\ localFile' = "written"
    /\ downloadPc' = "returned"
    /\ UNCHANGED <<fileExists, outputUri, heads, waitedMs, downloadError,
                   planVars, monVars, jobVars, overlayVars, runVars>>

\* the GetObject request or the stream of its body fails
GetObjectRejects ==
    /\ downloadPc = "fetching"
    /\ downloadPc' = "thrown"
    /\ downloadError' = GetObjectError
    /\ UNCHANGED <<fileExists, outputUri, heads, waitedMs, localFile,
                   planVars, monVars, jobVars, overlayVars, runVars>>

\* the S3 URIs downloadFromS3 is called with
OutputUris ==
    {<<"s", "3", ":", "/", "/", "b", "/", "o", "/", "v", "_", "7", ".", "m", "p", "4">>,
     <<"s", "3", ":", "/", "/", "b", "/", "v">>,
     <<"s", "3", ":", "/", "/", "b", "k", "/", "o", "/", "/", "v", ".", "m", "o", "v">>,
     <<"s", "3", ":", "/", "/", "/", "v">>,
     <<"s", "3", ":", "/", "/", "b", "/">>,
     <<"s", "3", ":", "/", "/", "b">>,
     <<"d", "/", "v", "_", "7", ".", "m", "p", "4">>}

DownloadInit ==
    /\ downloadPc = "called"
    /\ fileExists = "none"
    /\ outputUri \in OutputUris
    /\ heads = <<>>
    /\ waitedMs = 0
    /\ localFile = "absent"
    /\ downloadError = <<>>
    /\ PlanIdle
    /\ MonitorIdle
    /\ JobIdle
    /\ OverlayIdle
    /\ RunIdle

DownloadNext ==
    \/ ParseS3Uri
    \/ HeadFound
    \/ HeadNotFound
    \/ HeadFails
    \/ WaitElapses
    \/ GetObjectResolves
    \/ GetObjectRejects

DownloadSpec == DownloadInit /\ [][DownloadNext]_vars

-----------------------------------------------------------------------------
(* main (index.js): upload, submit, monitor, download *)

\* what ffprobe reports of the files main is run on
MainFfprobeAnswers ==
    {[width |-> 1920, height |-> 1080, rotation |-> 0, duration |-> 12000000,
      streamBitRate |-> Some(5000000), formatBitRate |-> None,
      pixFmt |-> Some("yuv420p")],
     [width |-> 1080, height |-> 1920, rotation |-> 90, duration |-> 4999500,
      streamBitRate |-> None, formatBitRate |-> Some(6000000), pixFmt |-> None]}

\* const s3Uri = await uploadToS3(filePath) resolves and
\* createMediaConvertJob(s3Uri, filePath) is called
UploadResolves ==
    /\ mainPc = "uploading"
    /\ mainPc' = "creating"
    /\ s3Uri' = "s3://bucket/input/my-video.mp4"
    /\ localFilePath' = "./my-video.mp4"
    /\ jobPc' = "probing"
    /\ videoMetadata' = DefaultVideoMetadata
    /\ UNCHANGED <<probe, jobSettings, createJobCommands, dateNow, submissions,
                   planPc, outputResolution, recheckedResolution, monVars, overlayVars,
                   downloadVars>>

\* uploadToS3 throws: the file is missing or the upload failed
UploadRejects ==
    /\ mainPc = "uploading"
    /\ mainPc' = "exited"
    /\ UNCHANGED <<s3Uri, dateNow, submissions, planVars, monVars, jobVars, overlayVars,
                   downloadVars>>

MainProbeResolves == ProbeAnswers(MainFfprobeAnswers)

MainMonitorsRegardless ==
    /\ mainPc = "creating"
    /\ jobPc \in {"returned", "thrown"}
    /\ mainPc' = "monitoring"
    /\ pc' = "polling"
    /\ UNCHANGED <<service, previousStatus, lastProgressUpdate, clock, polls, log, result,
                   s3Uri, dateNow, submissions, planVars, jobVars, overlayVars,
                   downloadVars>>

\* createMediaConvertJob returned the job id: monitorJobProgress(jobId) is
\* called
MainMonitors ==
    /\ mainPc = "creating"
    /\ jobPc = "returned"
    /\ mainPc' = "monitoring"
    /\ pc' = "polling"
    /\ UNCHANGED <<service, previousStatus, lastProgressUpdate, clock, polls, log, result,
                   s3Uri, dateNow, submissions, planVars, jobVars, overlayVars,
                   downloadVars>>

\* monitorJobProgress returned an outputUri: downloadFromS3(outputUri,
\* localOutputPath) is called
MainDownloads ==
    /\ mainPc = "monitoring"
    /\ pc = "returned"
    /\ result.kind = "returned"
    /\ IsDefined(result.outputUri)
    /\ mainPc' = "downloading"
    /\ downloadPc' = "called"
    /\ outputUri' = Get(result.outputUri)
    /\ UNCHANGED <<fileExists, heads, waitedMs, localFile, downloadError,
                   s3Uri, dateNow, submissions, planVars, monVars, jobVars, overlayVars>>

\* monitorJobProgress returned without an outputUri: if (outputUri) is
\* skipped and main ends
MainSkipsDownload ==
    /\ mainPc = "monitoring"
    /\ pc = "returned"
    /\ result.kind = "returned"
    /\ ~IsDefined(result.outputUri)
    /\ mainPc' = "done"
    /\ UNCHANGED <<s3Uri, dateNow, submissions, planVars, monVars, jobVars, overlayVars,
                   downloadVars>>

\* downloadFromS3 returned: the sizes are logged and main ends
MainCompletes ==
    /\ mainPc = "downloading"
    /\ downloadPc = "returned"
    /\ mainPc' = "done"
    /\ UNCHANGED <<s3Uri, dateNow, submissions, planVars, monVars, jobVars, overlayVars,
                   downloadVars>>

\* catch (error): the step awaited threw (or returned nothing to
\* destructure); the message is logged and process.exit(1) runs
MainCatches ==
    /\ \/ mainPc = "creating" /\ jobPc = "thrown"
       \/ mainPc = "monitoring" /\ pc = "thrown"
       \/ mainPc = "monitoring" /\ pc = "returned" /\ result.kind = "undefined"
       \/ mainPc = "downloading" /\ downloadPc = "thrown"
    /\ mainPc' = "exited"
    /\ UNCHANGED <<s3Uri, dateNow, submissions, planVars, monVars, jobVars, overlayVars,
                   downloadVars>>

\* main has read the source file's size and awaits the upload
MainInit ==
    /\ mainPc = "uploading"
    /\ s3Uri = "none"
    /\ dateNow = 0
    /\ submissions = <<>>
    /\ PlanIdle
    /\ JobIdle
    /\ OverlayIdle
    /\ DownloadIdle
    /\ service = [echoes |-> "main", answers |-> MaxMainPolls]
    /\ pc = "idle"
    /\ previousStatus = "null"
    /\ lastProgressUpdate = 0
    /\ clock = 0
    /\ polls = <<>>
    /\ log = <<>>
    /\ result = [kind |-> "none"]

MainNext ==
    \/ UploadResolves
    \/ UploadRejects
    \/ MainProbeResolves
    \/ ProbeRejects
    \/ CreateJobResolves
    \/ CreateJobRejects
    \/ MainMonitors
    \/ PollReturns
    \/ PollThrows
    \/ Sleep
    \/ MainDownloads
    \/ MainSkipsDownload
    \/ ParseS3Uri
    \/ HeadFound
    \/ HeadNotFound
    \/ HeadFails
    \/ WaitElapses
    \/ GetObjectResolves
    \/ GetObjectRejects
    \/ MainCompletes
    \/ MainCatches

MainSpec == MainInit /\ [][MainNext]_vars

-----------------------------------------------------------------------------
(* Claims about the pipeline (checked under MainSpec) *)

\* C21: one invocation of createMediaConvertJob issues at most one create-job
\* request; when the service rejects it the rejection is propagated at once,
\* with no retry, and in the pipeline a failed submission is followed by no
\* status poll and no download: main only exits
C21_FailedSubmissionEndsRun ==
    /\ [](createJobCommands <= 1 /\ Len(submissions) <= 1)
    /\ [](jobPc = "thrown" =>
            /\ createJobCommands = 1
            /\ pc = "idle"
            /\ polls = <<>>
            /\ downloadPc = "idle"
            /\ heads = <<>>
            /\ localFile = "absent")
    /\ [][jobPc = "thrown" =>
            /\ mainPc = "creating"
            /\ mainPc' = "exited"
            /\ UNCHANGED <<jobVars, submissions, monVars, downloadVars>>]_vars

\* main has exited on the rejection of its one create-job request
C21_Witness ==
    /\ jobPc = "thrown"
    /\ mainPc = "exited"
    /\ createJobCommands = 1

-----------------------------------------------------------------------------
(* Claims about the download (checked under DownloadSpec) *)

\* C23: waitForS3Object(bucket, key, 12, 5000) makes at most 12 existence
\* checks, sleeps 5 s between consecutive checks and never more than 60 s in
\* all, returns true at the first check that succeeds and returns false only
\* after all 12 checks reported not-found; downloadFromS3 sends the fetch and
\* writes the local file only after it returned true
C23_BoundedWaitThenFetch ==
    LET sleeps == IF downloadPc = "checking" THEN Len(heads) ELSE Max(Len(heads) - 1, 0)
    IN  /\ Len(heads) <= 12
        /\ waitedMs = 5000 * sleeps
        /\ waitedMs <= 60000
        /\ \A i \in 1 .. Len(heads) - 1 : heads[i] = "notFound"
        /\ fileExists = "true" <=> (heads # <<>> /\ Last(heads) = "found")
        /\ fileExists = "false" =>
              (Len(heads) = 12 /\ \A i \in 1 .. 12 : heads[i] = "notFound")
        /\ (downloadPc \in {"fetching", "returned"} \/ localFile = "written") =>
              fileExists = "true"

\* the file was written after eleven checks that found nothing and a twelfth
\* that found the object
C23_Witness ==
    /\ localFile = "written"
    /\ Len(heads) = 12
    /\ waitedMs = 55000

-----------------------------------------------------------------------------
(* Claims about repeated submissions (checked under ResubmitSpec) *)

\* C22: any two accepted submissions of the same source file carry different
\* name suffixes (the NameModifier, taken from the wall clock at submission),
\* so their output names never collide
C22_DistinctNameSuffixes ==
    \A i, j \in 1 .. Len(submissions) :
        (/\ i # j
         /\ submissions[i].accepted
         /\ submissions[j].accepted
         /\ submissions[i].FileInput = submissions[j].FileInput)
            => submissions[i].NameModifier # submissions[j].NameModifier

-----------------------------------------------------------------------------
(* Claims about the polling discipline of the monitor (checked under Spec) *)

\* C25: at most one status request is in flight at any time, and between any
\* two consecutive polls the monitor sleeps exactly one configured poll
\* interval: a poll is answered only while the one request of the pass is
\* outstanding and its answer ends that request; the next request is sent
\* only out of the sleep of the pass before, which lasted PollIntervalSeconds
\* and saw no poll
C25_OnePollPerInterval ==
    [][ /\ polls' # polls =>
              /\ pc = "polling"
              /\ pc' # "polling"
              /\ Len(polls') = Len(polls) + 1
        /\ pc' = "polling" =>
              /\ pc = "sleeping"
              /\ polls' = polls
              /\ clock' = clock + PollIntervalSeconds ]_vars

\* a third request is outstanding after one answered and one failed poll:
\* both sleeps of the loop (after the try block, in the catch block) ran
C25_Witness ==
    /\ pc = "polling"
    /\ Len(polls) = 2
    /\ \E i, j \in 1 .. 2 : polls[i].ok /\ ~polls[j].ok

\* C28: once a poll returned Complete, Error or Canceled the monitor makes no
\* further status request and no further sleep before it returns or throws,
\* and the recorded last status is never a terminal one while the loop runs
C28_TerminalAnswerEndsLoop ==
    /\ [](\A i \in 1 .. Len(polls) :
              (polls[i].ok /\ polls[i].job.Status \in TerminalStatuses) =>
                  (i = Len(polls) /\ Ended))
    /\ [](pc \in {"polling", "sleeping"} => previousStatus \notin TerminalStatuses)
    /\ [][Ended => UNCHANGED <<pc, polls, clock>>]_vars

\* a monitor that ended on a terminal answer after an earlier sleep
C28_Witness ==
    /\ Ended
    /\ Len(polls) >= 2
    /\ Last(polls).ok
    /\ Last(polls).job.Status \in TerminalStatuses

\* the monitor ended on an answer carrying the remote job's final status,
\* with the outcome of that status
C29_MatchingOutcome ==
    /\ Ended
    /\ LastAnswerIs(service.status)
    /\ service.status = "COMPLETE" =>
          result.kind = "returned" /\ result.job = Last(polls).job
    /\ service.status = "ERROR" =>
          result.kind = "thrown" /\ result.message = JobFailedError(Last(polls).job)
    /\ service.status = "CANCELED" =>
          result.kind = "thrown" /\ result.message = CanceledError

\* C29: with the poll step scheduled fairly, if the remote job reaches
\* Complete, Error or Canceled (and stays there) and status requests from
\* some point on succeed, the monitor eventually ends with the matching
\* outcome: returned for Complete, the failure for Error, the cancellation
\* failure for Canceled, however many transient errors came before
C29_EventuallyMatchingOutcome ==
    <>(/\ service.status \in TerminalStatuses
       /\ service.reliable
       /\ Len(polls) < service.answers)
        => <>C29_MatchingOutcome

-----------------------------------------------------------------------------
(* Claims about the rebuilt output URI (checked under UriSpec) *)

\* C30: the outputUri returned on Complete is a function of the job's echoed
\* settings alone: the same Complete response polled at any other time would
\* give the same outputUri (or null both times), whichever fields are absent
C30_UriFromSettingsAlone ==
    (pc = "returned" /\ result.kind = "returned") =>
        \A now \in 0 .. clock :
            result.outputUri = TryOutputUri(result.job, now).outputUri
====
